---- MODULE Spec2Model ----
(***************************************************************************)
(* Model of shared/interface.go of orkestra-shared: the Node /             *)
(* ExecutionContext data model, the conversions to and from the proto      *)
(* envelopes (JSON blobs for the dynamically typed fields), and the two    *)
(* gRPC adapters NodeExecutorGRPC (caller side) and NodeExecutorGRPCServer *)
(* (callee side).                                                          *)
(*                                                                         *)
(* A Go value of type interface{} is a pair <<kind, payload>>; a JSON blob  *)
(* is a pair <<kind, payload>> too (its parse tree, or "empty" for zero    *)
(* bytes, or "bad" for bytes that are not JSON).  A Go error is the chain  *)
(* of its messages, outermost first; NoErr is the nil error.  Go slices    *)
(* keep their nil-ness.                                                    *)
(***************************************************************************)
EXTENDS Integers, Sequences, FiniteSets, TLC

VARIABLES
    subject,    \* codec run: which conversion this run exercises
    phase,      \* codec run: "built", "encoded", "decoded", "rawdecoded"
    node,       \* codec run: the Node given to toProtoNode
    pnode,      \* codec run: result of toProtoNode, or the raw envelope decoded
    dnode,      \* codec run: result of fromProtoNode
    ectx,       \* codec run: the ExecutionContext given to toProtoExecutionContext
    pctx,       \* codec run: result of toProtoExecutionContext, or the raw envelope
    dctx,       \* codec run: result of fromProtoExecutionContext
    val,        \* codec run: the result value given to toProtoValue
    pval,       \* codec run: result of toProtoValue, or the raw blob
    dval,       \* codec run: result of fromProtoValue
    impl,       \* service run: the NodeExecutor behind the callee-side adapter
    calls,      \* service run: per call, how far it got and what it carries
    crashed     \* service run: the plugin process died of a handler panic

vars == <<subject, phase, node, pnode, dnode, ectx, pctx, dctx, val, pval, dval,
          impl, calls, crashed>>

codecVars == <<subject, phase, node, pnode, dnode, ectx, pctx, dctx, val, pval, dval>>
serviceVars == <<impl, calls, crashed>>

---------------------------------------------------------------------------
(* Bounds of the model. *)

MaxDepth == 2
NumCalls == 2

---------------------------------------------------------------------------
(* Go values of type interface{}: <<kind, payload>> *)

Kind(x) == x[1]
Payload(x) == x[2]

GoNil == <<"nil", 0>>
NilMap == <<"nilmap", 0>>
GoNaN == <<"nan", 0>>
GoChan == <<"chan", 0>>
GoBool(b) == <<"bool", b>>
GoString(s) == <<"string", s>>
GoFloat(n) == <<"float64", n>>
GoInt(n) == <<"int", n>>
GoSlice(s) == <<"slice", s>>
GoMap(m) == <<"map", m>>

(* Go slices: a nil slice and an empty one both have no elements. *)
NilSlice == [nil |-> TRUE, e |-> <<>>]
EmptySlice == [nil |-> FALSE, e |-> <<>>]
MkSlice(s) == [nil |-> FALSE, e |-> s]
(* var xs []T; for ... { xs = append(xs, x) }: nil unless something was appended *)
Appended(s) == IF s = <<>> THEN NilSlice ELSE MkSlice(s)

(* Go errors: the chain of messages, outermost first.  field is the struct
   field the error itself names ("" when it names none). *)
NoErr == <<>>
Err(msg, field) == <<[msg |-> msg, field |-> field]>>
Wrap(prefix, err) == <<[msg |-> prefix, field |-> ""]>> \o err
ErrUnsupportedType == Err("json: unsupported type: chan int", "")
ErrUnsupportedValue == Err("json: unsupported value: NaN", "")
ErrUnexpectedEnd == Err("unexpected end of JSON input", "")
ErrInvalidChar == Err("invalid character looking for beginning of value", "")
ErrIntoMap == Err("json: cannot unmarshal into Go value of type map[string]interface {}", "")
ErrIntoRetries == Err("json: cannot unmarshal into Go value of type shared.Retries", "")
ErrRetriesCount == Err("json: cannot unmarshal into Go struct field Retries.count of type int", "Retries.count")
ErrRetriesDelay == Err("json: cannot unmarshal into Go struct field Retries.delay of type string", "Retries.delay")

(* JSON blobs *)
EmptyBlob == <<"empty", 0>>
BadBlob == <<"bad", 0>>
JNull == <<"null", 0>>
JBool(b) == <<"bool", b>>
JNum(n) == <<"num", n>>
JStr(s) == <<"str", s>>
JArr(s) == <<"arr", s>>
JObj(m) == <<"obj", m>>

BlobLen0(b) == Kind(b) = "empty"

(* encoding/json writes a string that is not valid UTF-8 with U+FFFD in place
   of the offending bytes. *)
BadUTF8 == "\\xff"
Replacement == "\\ufffd"
CoerceUTF8(s) == IF s = BadUTF8 THEN Replacement ELSE s

MinOf(S) == CHOOSE i \in S : \A o \in S : i <= o

(* json.Marshal of a value of type interface{} (or of a map[string]interface{}).
   Map keys are written in sorted order; the values of this model hold at most
   one unsupported value per map, so which key fails first does not matter. *)
RECURSIVE Marshal(_)
Marshal(x) ==
    CASE Kind(x) \in {"nil", "nilmap"} -> [b |-> JNull, err |-> NoErr]
      [] Kind(x) = "bool" -> [b |-> JBool(Payload(x)), err |-> NoErr]
      [] Kind(x) = "string" -> [b |-> JStr(CoerceUTF8(Payload(x))), err |-> NoErr]
      [] Kind(x) \in {"float64", "int"} -> [b |-> JNum(Payload(x)), err |-> NoErr]
      [] Kind(x) = "nan" -> [b |-> EmptyBlob, err |-> ErrUnsupportedValue]
      [] Kind(x) = "chan" -> [b |-> EmptyBlob, err |-> ErrUnsupportedType]
      [] Kind(x) = "slice" ->
            LET rs == [i \in 1..Len(Payload(x)) |-> Marshal(Payload(x)[i])]
                bad == {i \in 1..Len(Payload(x)) : rs[i].err # NoErr}
            IN  IF bad = {}
                THEN [b |-> JArr([i \in 1..Len(Payload(x)) |-> rs[i].b]), err |-> NoErr]
                ELSE [b |-> EmptyBlob, err |-> rs[MinOf(bad)].err]
      [] Kind(x) = "map" ->
            LET rs == [key \in DOMAIN Payload(x) |-> Marshal(Payload(x)[key])]
                bad == {key \in DOMAIN Payload(x) : rs[key].err # NoErr}
            IN  IF bad = {}
                THEN [b |-> JObj([key \in DOMAIN Payload(x) |-> rs[key].b]), err |-> NoErr]
                ELSE [b |-> EmptyBlob, err |-> rs[CHOOSE key \in bad : TRUE].err]

(* What json.Unmarshal stores in an interface{} for a well-formed JSON value. *)
RECURSIVE FromJSON(_)
FromJSON(b) ==
    CASE Kind(b) = "null" -> GoNil
      [] Kind(b) = "bool" -> GoBool(Payload(b))
      [] Kind(b) = "num" -> GoFloat(Payload(b))
      [] Kind(b) = "str" -> GoString(Payload(b))
      [] Kind(b) = "arr" -> GoSlice([i \in 1..Len(Payload(b)) |-> FromJSON(Payload(b)[i])])
      [] Kind(b) = "obj" -> GoMap([key \in DOMAIN Payload(b) |-> FromJSON(Payload(b)[key])])

(* json.Unmarshal: the syntax check that comes before any decoding *)
SyntaxErr(b) ==
    CASE Kind(b) = "empty" -> ErrUnexpectedEnd
      [] Kind(b) = "bad" -> ErrInvalidChar
      [] OTHER -> NoErr

(* var v interface{}; json.Unmarshal(b, &v) *)
UnmarshalAny(b) ==
    IF SyntaxErr(b) # NoErr THEN [v |-> GoNil, err |-> SyntaxErr(b)]
    ELSE [v |-> FromJSON(b), err |-> NoErr]

(* var m map[string]interface{}; json.Unmarshal(b, &m) *)
UnmarshalMap(b) ==
    CASE SyntaxErr(b) # NoErr -> [v |-> NilMap, err |-> SyntaxErr(b)]
      [] Kind(b) = "null" -> [v |-> NilMap, err |-> NoErr]
      [] Kind(b) = "obj" -> [v |-> FromJSON(b), err |-> NoErr]
      [] OTHER -> [v |-> NilMap, err |-> ErrIntoMap]

---------------------------------------------------------------------------
(* The data model *)

(* *Retries: present = FALSE is the nil pointer *)
NilRetries == [present |-> FALSE, Count |-> 0, Delay |-> ""]
MkRetries(count, delay) == [present |-> TRUE, Count |-> count, Delay |-> delay]

(* MarshalRetries with Retries held by value: no policy is written as the
   zero policy *)
MarshalRetriesByValue(r) ==
    JObj([key \in {"count", "delay"} |->
             IF key = "count" THEN JNum(r.Count) ELSE JStr(CoerceUTF8(r.Delay))])

(* json.Marshal(node.Retries): null for the nil pointer, else the struct with
   its json tags "count" and "delay" *)
MarshalRetries(r) ==
    IF ~r.present THEN JNull
    ELSE JObj([key \in {"count", "delay"} |->
                  IF key = "count" THEN JNum(r.Count) ELSE JStr(CoerceUTF8(r.Delay))])

(* var retries *Retries; json.Unmarshal(b, &retries).  A member of the wrong
   JSON kind is a type error naming the struct field; unknown members are
   skipped and a null member leaves the field at its zero value. *)
UnmarshalRetries(b) ==
    CASE SyntaxErr(b) # NoErr -> [v |-> NilRetries, err |-> SyntaxErr(b)]
      [] Kind(b) = "null" -> [v |-> NilRetries, err |-> NoErr]
      [] Kind(b) = "obj" ->
            LET has(key) == key \in DOMAIN Payload(b)
                member(key) == Payload(b)[key]
                countBad == has("count") /\ Kind(member("count")) \notin {"num", "null"}
                delayBad == has("delay") /\ Kind(member("delay")) \notin {"str", "null"}
                count == IF has("count") /\ Kind(member("count")) = "num"
                         THEN Payload(member("count")) ELSE 0
                delay == IF has("delay") /\ Kind(member("delay")) = "str"
                         THEN Payload(member("delay")) ELSE ""
            IN  [v |-> MkRetries(count, delay),
                 err |-> IF countBad THEN ErrRetriesCount
                         ELSE IF delayBad THEN ErrRetriesDelay ELSE NoErr]
      [] OTHER -> [v |-> NilRetries, err |-> ErrIntoRetries]

(* *Node: NilNode is the nil pointer *)
NilNode == [nil |-> TRUE]
MkNode(id, uses, with, needs, do, retries, onFailure) ==
    [nil |-> FALSE, ID |-> id, Uses |-> uses, With |-> with, Needs |-> needs,
     Do |-> do, Retries |-> retries, OnFailure |-> onFailure]
(* Node{} *)
ZeroNode == MkNode("", "", NilMap, NilSlice, NilSlice, NilRetries, NilSlice)

(* *proto.Node *)
NilProtoNode == [nil |-> TRUE]
MkProtoNode(id, uses, with, needs, do, retries, onFailure) ==
    [nil |-> FALSE, Id |-> id, Uses |-> uses, With |-> with, Needs |-> needs,
     Do |-> do, Retries |-> retries, OnFailure |-> onFailure]

(* map[string]string: NilSecrets is the nil map *)
NilSecrets == [nil |-> TRUE, m |-> <<>>]
MkSecrets(m) == [nil |-> FALSE, m |-> m]

MkContext(triggerData, nodeOutputs, secrets, currentItem, failureData) ==
    [TriggerData |-> triggerData, NodeOutputs |-> nodeOutputs, Secrets |-> secrets,
     CurrentItem |-> currentItem, FailureData |-> failureData]
(* ExecutionContext{} *)
ZeroContext == MkContext(NilMap, NilMap, NilSecrets, GoNil, NilMap)

(* *proto.ExecutionContext *)
NilProtoContext == [nil |-> TRUE]
MkProtoContext(triggerData, nodeOutputs, secrets, currentItem, failureData) ==
    [nil |-> FALSE, TriggerData |-> triggerData, NodeOutputs |-> nodeOutputs,
     Secrets |-> secrets, CurrentItem |-> currentItem, FailureData |-> failureData]

---------------------------------------------------------------------------
(* The conversions.  Each returns its Go result pair as a record. *)

(* The first error of a sequence of results, NoErr when there is none. *)
FirstErr(rs) ==
    LET bad == {i \in 1..Len(rs) : rs[i].err # NoErr}
    IN  IF bad = {} THEN NoErr ELSE rs[MinOf(bad)].err

RECURSIVE toProtoNode(_)
toProtoNode(n) ==
    IF n.nil THEN [pn |-> NilProtoNode, err |-> NoErr]
    ELSE
    LET with == Marshal(n.With)
        do == [i \in 1..Len(n.Do.e) |-> toProtoNode(n.Do.e[i])]
        doNodes == Appended([i \in 1..Len(n.Do.e) |-> do[i].pn])
        retries == MarshalRetries(n.Retries)
        fail == [i \in 1..Len(n.OnFailure.e) |-> toProtoNode(n.OnFailure.e[i])]
        onFailureNodes == Appended([i \in 1..Len(n.OnFailure.e) |-> fail[i].pn])
    IN  CASE with.err # NoErr -> [pn |-> NilProtoNode, err |-> with.err]
          [] FirstErr(do) # NoErr -> [pn |-> NilProtoNode, err |-> FirstErr(do)]
          [] FirstErr(fail) # NoErr -> [pn |-> NilProtoNode, err |-> FirstErr(fail)]
          [] OTHER ->
                [pn |-> MkProtoNode(n.ID, n.Uses, with.b, n.Needs, doNodes,
                                    retries, onFailureNodes),
                 err |-> NoErr]

toProtoExecutionContext(ctx) ==
    LET triggerData == Marshal(ctx.TriggerData)
        nodeOutputs == Marshal(ctx.NodeOutputs)
        currentItem == Marshal(ctx.CurrentItem)
        failureData == Marshal(ctx.FailureData)
    IN  CASE triggerData.err # NoErr -> [pc |-> NilProtoContext, err |-> triggerData.err]
          [] nodeOutputs.err # NoErr -> [pc |-> NilProtoContext, err |-> nodeOutputs.err]
          [] currentItem.err # NoErr -> [pc |-> NilProtoContext, err |-> currentItem.err]
          [] failureData.err # NoErr -> [pc |-> NilProtoContext, err |-> failureData.err]
          [] OTHER ->
                [pc |-> MkProtoContext(triggerData.b, nodeOutputs.b, ctx.Secrets,
                                       currentItem.b, failureData.b),
                 err |-> NoErr]

toProtoValue(x) == Marshal(x)

(* fromProtoNode that forgets to copy Needs *)
RECURSIVE fromProtoNodeNoNeeds(_)
fromProtoNodeNoNeeds(pNode) ==
    IF pNode.nil THEN [n |-> ZeroNode, err |-> NoErr]
    ELSE
    LET with == UnmarshalMap(pNode.With)
        do == [i \in 1..Len(pNode.Do.e) |-> fromProtoNodeNoNeeds(pNode.Do.e[i])]
        doNodes == Appended([i \in 1..Len(pNode.Do.e) |-> do[i].n])
        retries == IF ~BlobLen0(pNode.Retries) /\ Kind(pNode.Retries) # "null"
                   THEN UnmarshalRetries(pNode.Retries)
                   ELSE [v |-> NilRetries, err |-> NoErr]
        fail == [i \in 1..Len(pNode.OnFailure.e) |->
                    fromProtoNodeNoNeeds(pNode.OnFailure.e[i])]
        onFailureNodes == Appended([i \in 1..Len(pNode.OnFailure.e) |-> fail[i].n])
    IN  CASE with.err # NoErr -> [n |-> ZeroNode, err |-> with.err]
          [] FirstErr(do) # NoErr -> [n |-> ZeroNode, err |-> FirstErr(do)]
          [] retries.err # NoErr -> [n |-> ZeroNode, err |-> retries.err]
          [] FirstErr(fail) # NoErr -> [n |-> ZeroNode, err |-> FirstErr(fail)]
          [] OTHER ->
                [n |-> MkNode(pNode.Id, pNode.Uses, with.v, NilSlice, doNodes,
                              retries.v, onFailureNodes),
                 err |-> NoErr]

RECURSIVE fromProtoNode(_)
fromProtoNode(pNode) ==
    IF pNode.nil THEN [n |-> ZeroNode, err |-> NoErr]
    ELSE
    LET with == UnmarshalMap(pNode.With)
        do == [i \in 1..Len(pNode.Do.e) |-> fromProtoNode(pNode.Do.e[i])]
        doNodes == Appended([i \in 1..Len(pNode.Do.e) |-> do[i].n])
        retries == IF ~BlobLen0(pNode.Retries) /\ Kind(pNode.Retries) # "null"
                   THEN UnmarshalRetries(pNode.Retries)
                   ELSE [v |-> NilRetries, err |-> NoErr]
        fail == [i \in 1..Len(pNode.OnFailure.e) |-> fromProtoNode(pNode.OnFailure.e[i])]
        onFailureNodes == Appended([i \in 1..Len(pNode.OnFailure.e) |-> fail[i].n])
    IN  CASE with.err # NoErr -> [n |-> ZeroNode, err |-> with.err]
          [] FirstErr(do) # NoErr -> [n |-> ZeroNode, err |-> FirstErr(do)]
          [] retries.err # NoErr -> [n |-> ZeroNode, err |-> retries.err]
          [] FirstErr(fail) # NoErr -> [n |-> ZeroNode, err |-> FirstErr(fail)]
          [] OTHER ->
                [n |-> MkNode(pNode.Id, pNode.Uses, with.v, pNode.Needs, doNodes,
                              retries.v, onFailureNodes),
                 err |-> NoErr]

(* fromProtoContextField without the len(b) > 0 guard *)
fromProtoContextFieldUnguarded(b) == UnmarshalMap(b)

(* One blob of the context envelope: var m map[string]interface{};
   if len(b) > 0 { json.Unmarshal(b, &m) } *)
fromProtoContextField(b) ==
    IF ~BlobLen0(b) THEN UnmarshalMap(b) ELSE [v |-> NilMap, err |-> NoErr]

(* pCtx.TriggerData on a nil *proto.ExecutionContext is a nil pointer
   dereference: the function does not return, it panics. *)
fromProtoExecutionContext(pCtx) ==
    IF pCtx.nil THEN [ctx |-> ZeroContext, err |-> NoErr, panic |-> TRUE]
    ELSE
    LET triggerData == fromProtoContextField(pCtx.TriggerData)
        nodeOutputs == fromProtoContextField(pCtx.NodeOutputs)
        currentItem == fromProtoContextField(pCtx.CurrentItem)
        failureData == fromProtoContextField(pCtx.FailureData)
        failed(err) == [ctx |-> ZeroContext, err |-> err, panic |-> FALSE]
    IN  CASE triggerData.err # NoErr -> failed(triggerData.err)
          [] nodeOutputs.err # NoErr -> failed(nodeOutputs.err)
          [] currentItem.err # NoErr -> failed(currentItem.err)
          [] failureData.err # NoErr -> failed(failureData.err)
          [] OTHER ->
                [ctx |-> MkContext(triggerData.v, nodeOutputs.v, pCtx.Secrets,
                                   currentItem.v, failureData.v),
                 err |-> NoErr, panic |-> FALSE]

fromProtoValue(b) ==
    IF BlobLen0(b) THEN [v |-> GoNil, err |-> NoErr]
    ELSE UnmarshalAny(b)

---------------------------------------------------------------------------
(* The Execute request and the two adapters *)

(* *proto.ExecuteRequest *)
NilRequest == [nil |-> TRUE]
MkRequest(pn, pc) == [nil |-> FALSE, Node |-> pn, Context |-> pc]

toProtoExecuteRequest(n, ctx) ==
    LET protoNode == toProtoNode(n)
        protoCtx == toProtoExecutionContext(ctx)
    IN  CASE protoNode.err # NoErr -> [req |-> NilRequest, err |-> protoNode.err]
          [] protoCtx.err # NoErr -> [req |-> NilRequest, err |-> protoCtx.err]
          [] OTHER -> [req |-> MkRequest(protoNode.pn, protoCtx.pc), err |-> NoErr]

(* fromProtoExecuteRequest that drops the context's decode error *)
fromProtoExecuteRequestLax(req) ==
    LET n == fromProtoNode(req.Node)
        execCtx == fromProtoExecutionContext(req.Context)
    IN  CASE n.err # NoErr ->
                [node |-> ZeroNode, ctx |-> ZeroContext, err |-> n.err, panic |-> FALSE]
          [] execCtx.panic ->
                [node |-> ZeroNode, ctx |-> ZeroContext, err |-> NoErr, panic |-> TRUE]
          [] OTHER ->
                [node |-> n.n, ctx |-> execCtx.ctx, err |-> NoErr, panic |-> FALSE]

fromProtoExecuteRequest(req) ==
    LET n == fromProtoNode(req.Node)
        execCtx == fromProtoExecutionContext(req.Context)
    IN  CASE n.err # NoErr ->
                [node |-> ZeroNode, ctx |-> ZeroContext, err |-> n.err, panic |-> FALSE]
          [] execCtx.panic ->
                [node |-> ZeroNode, ctx |-> ZeroContext, err |-> NoErr, panic |-> TRUE]
          [] execCtx.err # NoErr ->
                [node |-> ZeroNode, ctx |-> ZeroContext, err |-> execCtx.err, panic |-> FALSE]
          [] OTHER ->
                [node |-> n.n, ctx |-> execCtx.ctx, err |-> NoErr, panic |-> FALSE]

(* The NodeExecutor behind the callee-side adapter: a stateless plugin whose
   Execute is decided by the node's Uses. *)
ErrBoom == Err("boom", "")
ImplExecute(n, ctx) ==
    CASE n.Uses = "fail" -> [v |-> GoNil, err |-> ErrBoom]
      [] n.Uses = "chan" -> [v |-> GoChan, err |-> NoErr]
      [] n.Uses = "item" -> [v |-> ctx.CurrentItem, err |-> NoErr]
      [] n.Uses = "none" -> [v |-> GoNil, err |-> NoErr]
      [] OTHER -> [v |-> n.With, err |-> NoErr]

(* *proto.ExecuteResponse *)
NilResponse == [nil |-> TRUE]
MkResponse(result) == [nil |-> FALSE, Result |-> result]

(* the handler without its check of the implementation's error *)
ServerExecuteIgnoresImplErr(req) ==
    LET d == fromProtoExecuteRequest(req)
        result == ImplExecute(d.node, d.ctx)
        protoResult == toProtoValue(result.v)
        done(resp, err, n, enc) ==
            [resp |-> resp, err |-> err, panic |-> FALSE, implCalls |-> n, encoded |-> enc]
    IN  CASE d.panic ->
                [resp |-> NilResponse, err |-> NoErr, panic |-> TRUE,
                 implCalls |-> 0, encoded |-> FALSE]
          [] d.err # NoErr ->
                done(NilResponse, Wrap("failed to convert request from proto", d.err), 0, FALSE)
          [] protoResult.err # NoErr ->
                done(NilResponse, Wrap("failed to convert result to proto", protoResult.err), 1, TRUE)
          [] OTHER -> done(MkResponse(protoResult.b), NoErr, 1, TRUE)

(* NodeExecutorGRPCServer.Execute, the whole handler.  implCalls counts the
   calls of s.Impl.Execute and encoded tells whether toProtoValue was called;
   panic means the handler did not return. *)
ServerExecute(req) ==
    LET d == fromProtoExecuteRequest(req)
        result == ImplExecute(d.node, d.ctx)
        protoResult == toProtoValue(result.v)
        done(resp, err, n, enc) ==
            [resp |-> resp, err |-> err, panic |-> FALSE, implCalls |-> n, encoded |-> enc]
    IN  CASE d.panic ->
                [resp |-> NilResponse, err |-> NoErr, panic |-> TRUE,
                 implCalls |-> 0, encoded |-> FALSE]
          [] d.err # NoErr ->
                done(NilResponse, Wrap("failed to convert request from proto", d.err), 0, FALSE)
          [] result.err # NoErr -> done(NilResponse, result.err, 1, FALSE)
          [] protoResult.err # NoErr ->
                done(NilResponse, Wrap("failed to convert result to proto", protoResult.err), 1, TRUE)
          [] OTHER -> done(MkResponse(protoResult.b), NoErr, 1, TRUE)

(* *proto.GetCapabilitiesResponse *)
MkCapsResponse(uses) == [nil |-> FALSE, Uses |-> uses]

(* GetCapabilities that answers with the list whatever the error *)
ServerGetCapabilitiesNoErrCheck(im) ==
    [resp |-> [nil |-> FALSE, Uses |-> im.uses], err |-> NoErr, panic |-> FALSE,
     implCalls |-> 1, encoded |-> FALSE]

(* NodeExecutorGRPCServer.GetCapabilities; im is s.Impl, whose GetCapabilities
   returns (im.uses, im.err) *)
ServerGetCapabilities(im) ==
    IF im.err # NoErr
    THEN [resp |-> NilResponse, err |-> im.err, panic |-> FALSE,
          implCalls |-> 1, encoded |-> FALSE]
    ELSE [resp |-> MkCapsResponse(im.uses), err |-> NoErr, panic |-> FALSE,
          implCalls |-> 1, encoded |-> FALSE]

(* NodeExecutorGRPC.Execute up to the remote call: the request to send, or
   the error returned without any remote call *)
ClientExecuteEncode(n, ctx) ==
    LET r == toProtoExecuteRequest(n, ctx)
    IN  IF r.err # NoErr
        THEN [req |-> NilRequest, err |-> Wrap("failed to convert request for gRPC", r.err)]
        ELSE [req |-> r.req, err |-> NoErr]

(* NodeExecutorGRPC.Execute after the remote call returned (resp, err) *)
ClientExecuteReturn(reply) ==
    IF reply.err # NoErr THEN [v |-> GoNil, err |-> reply.err]
    ELSE fromProtoValue(reply.resp.Result)

(* NodeExecutorGRPC.GetCapabilities after the remote call returned (resp, err) *)
ClientGetCapabilitiesReturn(reply) ==
    IF reply.err # NoErr THEN [v |-> NilSlice, err |-> reply.err]
    ELSE [v |-> reply.resp.Uses, err |-> NoErr]

(* The transport between the adapters (gRPC and the generated proto stubs).
   A handler's error reaches the caller as a status error of code Unknown
   whose description is the handler's message; a repeated field or a map with
   no entries arrives as nil; a connection to a dead process fails. *)
ErrUnavailable == Err("rpc error: code = Unavailable desc = transport is closing", "")
RemoteError(err) == Wrap("rpc error: code = Unknown desc", err)

RECURSIVE WireNode(_)
WireNode(pn) ==
    IF pn.nil THEN pn
    ELSE [pn EXCEPT !.Needs = Appended(pn.Needs.e),
                    !.Do = Appended([i \in 1..Len(pn.Do.e) |-> WireNode(pn.Do.e[i])]),
                    !.OnFailure = Appended([i \in 1..Len(pn.OnFailure.e) |->
                                                WireNode(pn.OnFailure.e[i])])]

WireContext(pc) ==
    IF pc.nil THEN pc
    ELSE [pc EXCEPT !.Secrets = IF pc.Secrets.m = <<>> THEN NilSecrets ELSE pc.Secrets]

WireRequest(req) == MkRequest(WireNode(req.Node), WireContext(req.Context))

WireReply(op, r) ==
    CASE r.err # NoErr -> [resp |-> NilResponse, err |-> RemoteError(r.err)]
      [] op = "GetCapabilities" ->
            [resp |-> MkCapsResponse(Appended(r.resp.Uses.e)), err |-> NoErr]
      [] OTHER -> [resp |-> r.resp, err |-> NoErr]

---------------------------------------------------------------------------
(* Inputs of the codec runs *)

NoEntries == <<>>

(* values of type map[string]interface{} *)
MapValues ==
    { NilMap,
      GoMap(NoEntries),
      GoMap([key \in {"url"} |-> GoString("https://x")]),
      GoMap([key \in {"n"} |-> GoFloat(1)]),
      GoMap([key \in {"n"} |-> GoInt(1)]),
      GoMap([key \in {"c"} |-> GoChan]),
      GoMap([key \in {"f"} |-> GoNaN]),
      GoMap([key \in {"s"} |-> GoString(BadUTF8)]),
      GoMap([key \in {"a", "m"} |->
                IF key = "a" THEN GoSlice(<<GoFloat(1), GoNil>>)
                ELSE GoMap([k2 \in {"b"} |-> GoBool(TRUE)])]) }

(* values of type interface{} *)
AnyValues ==
    { GoNil, GoBool(FALSE), GoString("x"), GoFloat(2), GoInt(2), GoChan,
      GoSlice(<<>>), GoSlice(<<GoString("x"), GoFloat(1)>>),
      GoMap(NoEntries), GoMap([key \in {"k"} |-> GoString("v")]) }

RetriesValues == { NilRetries, MkRetries(0, ""), MkRetries(3, "1s"), MkRetries(1, BadUTF8) }

NeedsAndDo ==
    { <<NilSlice, NilSlice>>, <<EmptySlice, EmptySlice>>, <<MkSlice(<<"a", "b">>), NilSlice>> }

Leaves ==
    { MkNode("n1", "log", w, nd[1], nd[2], r, nd[2]) :
        w \in MapValues, nd \in NeedsAndDo, r \in RetriesValues }

Sibling == MkNode("n1.1", "log", NilMap, NilSlice, NilSlice, NilRetries, NilSlice)

(* a parent around the tree built so far *)
Parents(n) ==
    { MkNode("p", "http.get", GoMap([key \in {"url"} |-> GoString("https://x")]),
             NilSlice, MkSlice(<<n>>), NilRetries, NilSlice),
      MkNode("p", "http.get", NilMap,
             NilSlice, MkSlice(<<Sibling, n>>), NilRetries, MkSlice(<<n>>)),
      MkNode("q", "log", GoMap(NoEntries),
             MkSlice(<<"n1">>), EmptySlice, MkRetries(0, ""), MkSlice(<<n, Sibling>>)),
      MkNode("q", "log", NilMap,
             NilSlice, MkSlice(<<NilNode, n>>), MkRetries(2, "5s"), NilSlice) }

MaxOf(S) == CHOOSE i \in S : \A o \in S : i >= o

(* depth of nesting of a tree of nodes or of envelopes: 0 for a leaf *)
RECURSIVE TreeDepth(_)
TreeDepth(n) ==
    IF n.nil THEN 0
    ELSE LET kids == {n.Do.e[i] : i \in 1..Len(n.Do.e)}
                     \cup {n.OnFailure.e[i] : i \in 1..Len(n.OnFailure.e)}
         IN  IF kids = {} THEN 0 ELSE 1 + MaxOf({TreeDepth(c) : c \in kids})

(* blobs an envelope may carry that no encoder of this module wrote *)
RawWithBlobs ==
    { EmptyBlob, BadBlob, JNull, JNum(1), JObj(NoEntries),
      JObj([key \in {"url"} |-> JStr("https://x")]) }

RawRetriesBlobs ==
    { EmptyBlob, BadBlob, JNull, JNum(5), JObj(NoEntries),
      JObj([key \in {"count", "delay"} |-> IF key = "count" THEN JNum(0) ELSE JStr("")]),
      JObj([key \in {"count", "delay"} |-> IF key = "count" THEN JStr("3") ELSE JStr("1s")]),
      JObj([key \in {"count", "extra"} |-> IF key = "count" THEN JNum(2) ELSE JNull]) }

RawLeaves ==
    { MkProtoNode("r1", "log", w, NilSlice, NilSlice, r, NilSlice) :
        w \in RawWithBlobs, r \in RawRetriesBlobs }
    \cup {NilProtoNode}

RawParents(pn) ==
    { MkProtoNode("p", "log", JObj(NoEntries), NilSlice, MkSlice(<<pn>>), JNull, NilSlice),
      MkProtoNode("q", "log", JNull, NilSlice, NilSlice, EmptyBlob, MkSlice(<<pn>>)) }

SecretsValues ==
    { NilSecrets, MkSecrets(NoEntries), MkSecrets([key \in {"token"} |-> "s3cr3t"]) }

Contexts ==
    { MkContext(t, o, s, c, f) :
        t \in { NilMap, GoMap(NoEntries), GoMap([key \in {"k"} |-> GoString("v")]),
                GoMap([key \in {"c"} |-> GoChan]) },
        o \in { NilMap, GoMap([key \in {"n1"} |-> GoMap([k2 \in {"ok"} |-> GoBool(TRUE)])]) },
        s \in SecretsValues,
        c \in AnyValues \cup {NilMap},
        f \in { NilMap, GoMap([key \in {"error"} |-> GoString("boom")]) } }

RawContextBlobs == { EmptyBlob, BadBlob, JNull, JStr("x"), JObj([key \in {"k"} |-> JNum(1)]) }

RawContexts ==
    { MkProtoContext(t, o, s, c, f) :
        t \in RawContextBlobs, o \in RawContextBlobs,
        s \in {NilSecrets, MkSecrets([key \in {"token"} |-> "s3cr3t"])},
        c \in RawContextBlobs, f \in RawContextBlobs }
    \cup {NilProtoContext}

RawValueBlobs ==
    { EmptyBlob, BadBlob, JNull, JBool(TRUE), JNum(7), JStr("x"),
      JArr(<<JNum(1), JNull>>), JObj([key \in {"k"} |-> JStr("v")]) }

---------------------------------------------------------------------------
(* The calls of the service runs *)

Calls == 1..NumCalls

IdleCall ==
    [pc |-> "idle", op |-> "", adapter |-> FALSE, node |-> ZeroNode, ctx |-> ZeroContext,
     req |-> NilRequest, remote |-> 0, implCalls |-> 0, encoded |-> FALSE,
     reply |-> [resp |-> NilResponse, err |-> NoErr],
     out |-> [v |-> GoNil, err |-> NoErr]]

DefaultImpl == [uses |-> MkSlice(<<"log", "http.get">>), err |-> NoErr]

ServiceIdle ==
    /\ impl = DefaultImpl
    /\ calls = [c \in Calls |-> IdleCall]
    /\ crashed = FALSE

CodecIdle ==
    /\ subject = "none"
    /\ phase = "none"
    /\ node = ZeroNode
    /\ pnode = [pn |-> NilProtoNode, err |-> NoErr]
    /\ dnode = [n |-> ZeroNode, err |-> NoErr]
    /\ ectx = ZeroContext
    /\ pctx = [pc |-> NilProtoContext, err |-> NoErr]
    /\ dctx = [ctx |-> ZeroContext, err |-> NoErr, panic |-> FALSE]
    /\ val = GoNil
    /\ pval = [b |-> EmptyBlob, err |-> NoErr]
    /\ dval = [v |-> GoNil, err |-> NoErr]

---------------------------------------------------------------------------
(* Codec runs: one conversion pair applied to one input *)

InitCodec ==
    /\ ServiceIdle
    /\ subject \in {"node", "rawnode", "ctx", "rawctx", "value", "rawvalue"}
    /\ phase = IF subject \in {"node", "ctx", "value"} THEN "built" ELSE "encoded"
    /\ node \in IF subject = "node" THEN Leaves ELSE {ZeroNode}
    /\ pnode \in IF subject = "rawnode"
                 THEN {[pn |-> l, err |-> NoErr] : l \in RawLeaves}
                 ELSE {[pn |-> NilProtoNode, err |-> NoErr]}
    /\ dnode = [n |-> ZeroNode, err |-> NoErr]
    /\ ectx \in IF subject = "ctx" THEN Contexts ELSE {ZeroContext}
    /\ pctx \in IF subject = "rawctx"
                THEN {[pc |-> c, err |-> NoErr] : c \in RawContexts}
                ELSE {[pc |-> NilProtoContext, err |-> NoErr]}
    /\ dctx = [ctx |-> ZeroContext, err |-> NoErr, panic |-> FALSE]
    /\ val \in IF subject = "value" THEN AnyValues \cup MapValues ELSE {GoNil}
    /\ pval \in IF subject = "rawvalue"
                THEN {[b |-> b, err |-> NoErr] : b \in RawValueBlobs}
                ELSE {[b |-> EmptyBlob, err |-> NoErr]}
    /\ dval = [v |-> GoNil, err |-> NoErr]

(* the caller nests the tree built so far under a new parent *)
WrapNode ==
    /\ subject = "node" /\ phase = "built"
    /\ TreeDepth(node) < MaxDepth
    /\ node' \in Parents(node)
    /\ UNCHANGED <<subject, phase, pnode, dnode, ectx, pctx, dctx, val, pval, dval>>
    /\ UNCHANGED serviceVars

(* a peer nests the envelope under a new parent envelope *)
WrapRawNode ==
    /\ subject = "rawnode" /\ phase = "encoded"
    /\ TreeDepth(pnode.pn) < MaxDepth
    /\ \E p \in RawParents(pnode.pn) : pnode' = [pn |-> p, err |-> NoErr]
    /\ UNCHANGED <<subject, phase, node, dnode, ectx, pctx, dctx, val, pval, dval>>
    /\ UNCHANGED serviceVars

EncodeNode ==
    /\ subject = "node" /\ phase = "built"
    /\ pnode' = toProtoNode(node)
    /\ phase' = "encoded"
    /\ UNCHANGED <<subject, node, dnode, ectx, pctx, dctx, val, pval, dval>>
    /\ UNCHANGED serviceVars

DecodeNode ==
    /\ subject \in {"node", "rawnode"} /\ phase = "encoded"
    /\ pnode.err = NoErr
    /\ dnode' = fromProtoNode(pnode.pn)
    /\ phase' = "decoded"
    /\ UNCHANGED <<subject, node, pnode, ectx, pctx, dctx, val, pval, dval>>
    /\ UNCHANGED serviceVars

EncodeContext ==
    /\ subject = "ctx" /\ phase = "built"
    /\ pctx' = toProtoExecutionContext(ectx)
    /\ phase' = "encoded"
    /\ UNCHANGED <<subject, node, pnode, dnode, ectx, dctx, val, pval, dval>>
    /\ UNCHANGED serviceVars

DecodeContext ==
    /\ subject \in {"ctx", "rawctx"} /\ phase = "encoded"
    /\ pctx.err = NoErr
    /\ dctx' = fromProtoExecutionContext(pctx.pc)
    /\ phase' = "decoded"
    /\ UNCHANGED <<subject, node, pnode, dnode, ectx, pctx, val, pval, dval>>
    /\ UNCHANGED serviceVars

EncodeValue ==
    /\ subject = "value" /\ phase = "built"
    /\ pval' = toProtoValue(val)
    /\ phase' = "encoded"
    /\ UNCHANGED <<subject, node, pnode, dnode, ectx, pctx, dctx, val, dval>>
    /\ UNCHANGED serviceVars

DecodeValue ==
    /\ subject \in {"value", "rawvalue"} /\ phase = "encoded"
    /\ pval.err = NoErr
    /\ dval' = fromProtoValue(pval.b)
    /\ phase' = "decoded"
    /\ UNCHANGED <<subject, node, pnode, dnode, ectx, pctx, dctx, val, pval>>
    /\ UNCHANGED serviceVars

NextCodec ==
    \/ WrapNode
    \/ WrapRawNode
    \/ EncodeNode
    \/ DecodeNode
    \/ EncodeContext
    \/ DecodeContext
    \/ EncodeValue
    \/ DecodeValue

SpecCodec == InitCodec /\ [][NextCodec]_vars

---------------------------------------------------------------------------
(* Service runs: NumCalls concurrent calls against one callee-side adapter *)

UrlMap == GoMap([key \in {"url"} |-> GoString("https://x")])
PlainContext ==
    MkContext(GoMap([key \in {"k"} |-> GoString("v")]), NilMap,
              MkSecrets([key \in {"token"} |-> "s3cr3t"]), NilMap, NilMap)
Step(uses, with) == MkNode("n1", uses, with, NilSlice, NilSlice, NilRetries, NilSlice)

(* what a caller hands to NodeExecutorGRPC.Execute *)
ExecInputs ==
    { <<Step("log", UrlMap), PlainContext>>,
      <<Step("fail", UrlMap), PlainContext>>,
      <<Step("chan", NilMap), PlainContext>>,
      <<Step("none", NilMap), ZeroContext>>,
      <<Step("item", NilMap), [PlainContext EXCEPT !.CurrentItem = GoString("x")]>>,
      <<Step("log", GoMap([key \in {"c"} |-> GoChan])), PlainContext>>,
      <<Step("log", NilMap), [PlainContext EXCEPT !.TriggerData = GoMap([key \in {"c"} |-> GoChan])]>>,
      <<MkNode("p", "log", UrlMap, MkSlice(<<"n0">>), MkSlice(<<Step("fail", NilMap)>>),
               MkRetries(0, ""), NilSlice),
        PlainContext>> }

RawNode(uses, with) == MkProtoNode("r1", uses, with, NilSlice, NilSlice, JNull, NilSlice)
RawContext(item) ==
    MkProtoContext(JObj(NoEntries), EmptyBlob, NilSecrets, item, JNull)

(* requests of a peer that does not go through NodeExecutorGRPC *)
RawRequests ==
    { MkRequest(RawNode("log", JObj(NoEntries)), NilProtoContext),
      MkRequest(RawNode("log", BadBlob), NilProtoContext),
      MkRequest(NilProtoNode, RawContext(EmptyBlob)),
      MkRequest(RawNode("log", JNull), RawContext(BadBlob)),
      MkRequest(RawNode("fail", JNull), RawContext(JNull)) }

Impls ==
    { DefaultImpl,
      [uses |-> EmptySlice, err |-> NoErr],
      [uses |-> MkSlice(<<"b", "a", "b">>), err |-> NoErr],
      [uses |-> NilSlice, err |-> Err("capabilities unavailable", "")] }

Init ==
    /\ CodecIdle
    /\ impl \in Impls
    /\ calls = [c \in Calls |-> IdleCall]
    /\ crashed = FALSE

(* NodeExecutorGRPC.Execute, up to the point where it blocks in the remote
   call or returns the conversion error *)
CallExecute(c) ==
    /\ calls[c].pc = "idle"
    /\ \E in \in ExecInputs :
          LET e == ClientExecuteEncode(in[1], in[2])
          IN  calls' = [calls EXCEPT ![c] =
                  IF e.err # NoErr
                  THEN [@ EXCEPT !.pc = "done", !.op = "Execute", !.adapter = TRUE,
                                 !.node = in[1], !.ctx = in[2],
                                 !.out = [v |-> GoNil, err |-> e.err]]
                  ELSE [@ EXCEPT !.pc = "sent", !.op = "Execute", !.adapter = TRUE,
                                 !.node = in[1], !.ctx = in[2],
                                 !.req = e.req, !.remote = @ + 1]]
    /\ UNCHANGED <<impl, crashed>>
    /\ UNCHANGED codecVars

(* a peer sends an Execute request of its own making *)
CallRaw(c) ==
    /\ calls[c].pc = "idle"
    /\ \E req \in RawRequests :
          calls' = [calls EXCEPT ![c] =
                       [@ EXCEPT !.pc = "sent", !.op = "Execute", !.req = req,
                                 !.remote = @ + 1]]
    /\ UNCHANGED <<impl, crashed>>
    /\ UNCHANGED codecVars

(* NodeExecutorGRPC.GetCapabilities, up to the remote call *)
CallGetCapabilities(c) ==
    /\ calls[c].pc = "idle"
    /\ calls' = [calls EXCEPT ![c] =
                    [@ EXCEPT !.pc = "sent", !.op = "GetCapabilities", !.adapter = TRUE,
                              !.remote = @ + 1]]
    /\ UNCHANGED <<impl, crashed>>
    /\ UNCHANGED codecVars

(* the plugin process runs the handler of call c; a panic of the handler
   ends the process *)
Handle(c) ==
    /\ ~crashed
    /\ calls[c].pc = "sent"
    /\ LET r == IF calls[c].op = "Execute"
                THEN ServerExecute(WireRequest(calls[c].req))
                ELSE ServerGetCapabilities(impl)
       IN  IF r.panic
           THEN /\ crashed' = TRUE
                /\ UNCHANGED calls
           ELSE /\ calls' = [calls EXCEPT ![c] =
                                [@ EXCEPT !.pc = "replied",
                                          !.implCalls = @ + r.implCalls,
                                          !.encoded = r.encoded,
                                          !.reply = WireReply(calls[c].op, r)]]
                /\ UNCHANGED crashed
    /\ UNCHANGED impl
    /\ UNCHANGED codecVars

(* the remote call of c fails: the process it waits for is gone *)
ConnectionLost(c) ==
    /\ crashed
    /\ calls[c].pc = "sent"
    /\ calls' = [calls EXCEPT ![c] =
                    [@ EXCEPT !.pc = "replied",
                              !.reply = [resp |-> NilResponse, err |-> ErrUnavailable]]]
    /\ UNCHANGED <<impl, crashed>>
    /\ UNCHANGED codecVars

(* the caller-side adapter returns to its caller *)
Return(c) ==
    /\ calls[c].pc = "replied"
    /\ calls[c].adapter
    /\ calls' = [calls EXCEPT ![c] =
                    [@ EXCEPT !.pc = "done",
                              !.out = IF calls[c].op = "Execute"
                                      THEN ClientExecuteReturn(calls[c].reply)
                                      ELSE ClientGetCapabilitiesReturn(calls[c].reply)]]
    /\ UNCHANGED <<impl, crashed>>
    /\ UNCHANGED codecVars

Next ==
    \E c \in Calls :
        \/ CallExecute(c)
        \/ CallRaw(c)
        \/ CallGetCapabilities(c)
        \/ Handle(c)
        \/ ConnectionLost(c)
        \/ Return(c)

Spec == Init /\ [][Next]_vars

---------------------------------------------------------------------------
(* Properties of the conversions, checked under SpecCodec *)

(* the values json.Unmarshal itself stores in an interface{}: nil, bool,
   float64, string (valid UTF-8), []interface{} and map[string]interface{}
   of such values *)
RECURSIVE NativeValue(_)
NativeValue(x) ==
    CASE Kind(x) \in {"nil", "bool", "float64"} -> TRUE
      [] Kind(x) = "string" -> Payload(x) # BadUTF8
      [] Kind(x) = "slice" -> \A i \in 1..Len(Payload(x)) : NativeValue(Payload(x)[i])
      [] Kind(x) = "map" -> \A key \in DOMAIN Payload(x) : NativeValue(Payload(x)[key])
      [] OTHER -> FALSE

(* a map[string]interface{}: nil, or a map of such values *)
NativeMap(m) == m = NilMap \/ (Kind(m) = "map" /\ NativeValue(m))

(* a tree with no nil child pointer whose With maps hold only such values
   and whose Retries.Delay strings are valid UTF-8 *)
RECURSIVE NativeTree(_)
NativeTree(n) ==
    /\ ~n.nil
    /\ NativeMap(n.With)
    /\ n.Retries.Delay # BadUTF8
    /\ \A i \in 1..Len(n.Do.e) : NativeTree(n.Do.e[i])
    /\ \A i \in 1..Len(n.OnFailure.e) : NativeTree(n.OnFailure.e[i])

(* the same node: same ID, Uses, With, Needs, Retries, and the same Do and
   OnFailure children in the same order, each the same node *)
RECURSIVE SameNode(_, _)
SameNode(a, b) ==
    /\ ~a.nil /\ ~b.nil
    /\ a.ID = b.ID /\ a.Uses = b.Uses
    /\ a.With = b.With
    /\ a.Needs = b.Needs
    /\ a.Retries = b.Retries
    /\ Len(a.Do.e) = Len(b.Do.e)
    /\ \A i \in 1..Len(a.Do.e) : SameNode(a.Do.e[i], b.Do.e[i])
    /\ Len(a.OnFailure.e) = Len(b.OnFailure.e)
    /\ \A i \in 1..Len(a.OnFailure.e) : SameNode(a.OnFailure.e[i], b.OnFailure.e[i])

(* C1, as claimed: for every Node tree, toProtoNode succeeds and
   fromProtoNode of its result succeeds and yields the same node. *)
C1_RoundTripEveryTree ==
    (subject = "node" /\ phase # "built") =>
        /\ pnode.err = NoErr
        /\ phase = "decoded" => (dnode.err = NoErr /\ SameNode(node, dnode.n))

(* C1, amended: for every Node tree with no nil child pointer whose With
   values are of the kinds JSON decoding produces and whose strings are valid
   UTF-8, toProtoNode succeeds, fromProtoNode of its result succeeds and
   yields the same node, nested to the same depth. *)
C1_RoundTripNativeTree ==
    (subject = "node" /\ phase # "built" /\ NativeTree(node)) =>
        /\ pnode.err = NoErr
        /\ phase = "decoded" =>
              /\ dnode.err = NoErr
              /\ SameNode(node, dnode.n)
              /\ TreeDepth(dnode.n) = TreeDepth(node)

C1_Witness ==
    /\ subject = "node" /\ phase = "decoded"
    /\ NativeTree(node)
    /\ TreeDepth(node) >= 2
    /\ Len(dnode.n.Do.e) = 2
    /\ dnode.n.OnFailure.e # <<>>
    /\ dnode.n.With = NilMap
    /\ Len(dnode.n.Do.e[2].Do.e) = 1
    /\ dnode.n.Do.e[2].Do.e[1].With = GoMap(NoEntries)

(* the Retries of every node of tree b are those of tree a: absent where
   absent, and a present zero-count policy where a has one *)
RECURSIVE RetriesKept(_, _)
RetriesKept(a, b) ==
    a.nil \/
        /\ ~a.Retries.present => ~b.Retries.present
        /\ (a.Retries.present /\ a.Retries.Count = 0) =>
               (b.Retries.present /\ b.Retries.Count = 0)
        /\ Len(b.Do.e) = Len(a.Do.e)
        /\ \A i \in 1..Len(a.Do.e) : RetriesKept(a.Do.e[i], b.Do.e[i])
        /\ Len(b.OnFailure.e) = Len(a.OnFailure.e)
        /\ \A i \in 1..Len(a.OnFailure.e) : RetriesKept(a.OnFailure.e[i], b.OnFailure.e[i])

WellFormedRetries == MarshalRetries(MkRetries(1, "1s"))

(* C3: a node encoded with no Retries decodes with no Retries and one encoded
   with a present zero-count policy decodes with a present zero-count policy,
   at every node of the tree; and an envelope whose Retries blob is empty or
   null decodes with no Retries, any error of the decoding being one that the
   same envelope with a well-formed policy blob gives too. *)
C3_RetriesSentinel ==
    /\ (subject = "node" /\ phase = "decoded") =>
          (dnode.err = NoErr /\ RetriesKept(node, dnode.n))
    /\ (subject = "rawnode" /\ phase = "decoded" /\ ~pnode.pn.nil
           /\ Kind(pnode.pn.Retries) \in {"empty", "null"}) =>
          /\ ~dnode.n.Retries.present
          /\ dnode.err = fromProtoNode([pnode.pn EXCEPT !.Retries = WellFormedRetries]).err

C3_Witness ==
    /\ subject = "node" /\ phase = "decoded"
    /\ node.Retries = MkRetries(0, "")
    /\ dnode.n.Retries = MkRetries(0, "")
    /\ Len(node.OnFailure.e) = 2 /\ Len(dnode.n.OnFailure.e) = 2
    /\ ~node.OnFailure.e[1].Retries.present
    /\ ~dnode.n.OnFailure.e[1].Retries.present
    /\ node.OnFailure.e[1].With # NilMap

(* C2, as claimed: every ExecutionContext that toProtoExecutionContext
   encodes decodes without error to an equal context. *)
C2_ContextRoundTrip ==
    (subject = "ctx" /\ phase = "decoded") => (dctx.err = NoErr /\ dctx.ctx = ectx)

(* the error names a field *)
NamesField(err) == \E i \in 1..Len(err) : err[i].field # ""

(* C6, as claimed: every failed conversion returns an error that names the
   field whose blob failed. *)
C6_ErrorNamesField ==
    /\ pnode.err # NoErr => NamesField(pnode.err)
    /\ dnode.err # NoErr => NamesField(dnode.err)
    /\ pctx.err # NoErr => NamesField(pctx.err)
    /\ dctx.err # NoErr => NamesField(dctx.err)
    /\ pval.err # NoErr => NamesField(pval.err)
    /\ dval.err # NoErr => NamesField(dval.err)

ContextBlobFields == {"TriggerData", "NodeOutputs", "CurrentItem", "FailureData"}

(* C9: in every context envelope, a field whose blob is empty decodes to the
   nil map, and any error of the decoding is the error of another field's
   non-empty blob; an empty result blob decodes to nil with no error. *)
C9_EmptyBlobIsAbsent ==
    /\ (subject = "rawctx" /\ phase = "decoded" /\ ~pctx.pc.nil) =>
          \A f \in ContextBlobFields :
              BlobLen0(pctx.pc[f]) =>
                  /\ dctx.ctx[f] \in {NilMap, GoNil}
                  /\ ~dctx.panic
                  /\ dctx.err # NoErr =>
                        \E g \in ContextBlobFields \ {f} :
                            /\ ~BlobLen0(pctx.pc[g])
                            /\ UnmarshalMap(pctx.pc[g]).err = dctx.err
    /\ (subject = "rawvalue" /\ phase = "decoded" /\ BlobLen0(pval.b)) =>
          dval = [v |-> GoNil, err |-> NoErr]

C9_Witness ==
    /\ subject = "rawctx" /\ phase = "decoded" /\ ~pctx.pc.nil
    /\ BlobLen0(pctx.pc.TriggerData) /\ BlobLen0(pctx.pc.CurrentItem)
    /\ Kind(pctx.pc.NodeOutputs) = "obj" /\ Kind(pctx.pc.FailureData) = "null"
    /\ dctx.err = NoErr
    /\ dctx.ctx.TriggerData = NilMap /\ dctx.ctx.CurrentItem = NilMap
    /\ dctx.ctx.NodeOutputs # NilMap

---------------------------------------------------------------------------
(* Properties of the adapters, checked under Spec *)

(* C4, as claimed: every Execute request the callee-side adapter receives is
   answered with a response or an error, and none ends the service. *)
C4_ServiceSurvives ==
    /\ ~crashed
    /\ \A c \in Calls :
          (calls[c].op = "Execute" /\ calls[c].pc = "replied") =>
              (calls[c].reply.err # NoErr) # (~calls[c].reply.resp.nil)

(* what the handler of call c decoded, and what the implementation answers *)
Decoded(c) == fromProtoExecuteRequest(WireRequest(calls[c].req))
ImplResult(c) == ImplExecute(Decoded(c).node, Decoded(c).ctx)

(* C5: when the implementation's Execute was invoked for a request of the
   caller-side adapter and failed, the handler encoded no result, and the
   adapter returns a nil result with the remote error that carries the
   implementation's error, behind no conversion error. *)
C5_ErrorPropagation ==
    \A c \in Calls :
        (calls[c].op = "Execute" /\ calls[c].adapter /\ calls[c].implCalls = 1
            /\ ImplResult(c).err # NoErr) =>
            /\ ~calls[c].encoded
            /\ calls[c].reply = [resp |-> NilResponse, err |-> RemoteError(ImplResult(c).err)]
            /\ calls[c].pc = "done" =>
                  calls[c].out = [v |-> GoNil, err |-> RemoteError(ImplResult(c).err)]

C5_Witness ==
    \E c \in Calls :
        /\ calls[c].op = "Execute" /\ calls[c].adapter /\ calls[c].pc = "done"
        /\ calls[c].implCalls = 1
        /\ calls[c].node.Uses = "fail"
        /\ calls[c].out.err = RemoteError(ErrBoom)

(* what call c gets when it runs alone against the adapter *)
AloneReply(c) ==
    LET r == IF calls[c].op = "Execute"
             THEN ServerExecute(WireRequest(calls[c].req))
             ELSE ServerGetCapabilities(impl)
    IN  IF r.panic THEN [resp |-> NilResponse, err |-> ErrUnavailable]
        ELSE WireReply(calls[c].op, r)

AloneOut(c) ==
    CASE calls[c].op = "GetCapabilities" -> ClientGetCapabilitiesReturn(AloneReply(c))
      [] ClientExecuteEncode(calls[c].node, calls[c].ctx).err # NoErr ->
            [v |-> GoNil, err |-> ClientExecuteEncode(calls[c].node, calls[c].ctx).err]
      [] OTHER -> ClientExecuteReturn(AloneReply(c))

(* C7, as claimed: whatever the other calls do, every call is answered as it
   is when it runs alone on the same input. *)
C7_CallsIndependent ==
    \A c \in Calls :
        /\ calls[c].pc = "replied" => calls[c].reply = AloneReply(c)
        /\ calls[c].pc = "done" => calls[c].out = AloneOut(c)

(* As long as no handler has panicked, every call is answered as it is when
   it runs alone: the adapters themselves share nothing between calls. *)
IndependentWhileAlive == ~crashed => C7_CallsIndependent

(* C8: when the implementation's GetCapabilities was invoked and returned the
   list L, the caller-side adapter returns the elements of L in their order
   and no error; when it failed, the adapter returns no list and the remote
   error carrying the implementation's error. *)
C8_Capabilities ==
    \A c \in Calls :
        (calls[c].op = "GetCapabilities" /\ calls[c].pc = "done"
            /\ calls[c].implCalls = 1) =>
            IF impl.err = NoErr
            THEN calls[c].out.err = NoErr /\ calls[c].out.v.e = impl.uses.e
            ELSE calls[c].out = [v |-> NilSlice, err |-> RemoteError(impl.err)]

C8_Witness ==
    \E c \in Calls :
        /\ calls[c].op = "GetCapabilities" /\ calls[c].pc = "done"
        /\ calls[c].implCalls = 1
        /\ impl.uses.e = <<"b", "a", "b">>
        /\ calls[c].out.v.e = <<"b", "a", "b">>

(* C10: an Execute call of the caller-side adapter issues its one remote call
   only when node and context both encoded, and returns the conversion error
   with no remote call otherwise; the handler invokes the implementation at
   most once, and only for a request whose node and context both decoded. *)
C10_CallOrdering ==
    \A c \in Calls :
        /\ calls[c].remote <= 1 /\ calls[c].implCalls <= 1
        /\ calls[c].implCalls <= calls[c].remote
        /\ (calls[c].op = "Execute" /\ calls[c].adapter) =>
              IF toProtoNode(calls[c].node).err = NoErr
                 /\ toProtoExecutionContext(calls[c].ctx).err = NoErr
              THEN calls[c].remote = 1
              ELSE /\ calls[c].remote = 0
                   /\ calls[c].pc = "done"
                   /\ calls[c].out.v = GoNil /\ calls[c].out.err # NoErr
        /\ (calls[c].op = "Execute" /\ calls[c].implCalls = 1) =>
              /\ fromProtoNode(WireRequest(calls[c].req).Node).err = NoErr
              /\ ~calls[c].req.Context.nil
              /\ fromProtoExecutionContext(WireRequest(calls[c].req).Context).err = NoErr
        /\ (calls[c].op = "Execute" /\ calls[c].pc \in {"replied", "done"}
               /\ calls[c].remote = 1 /\ calls[c].reply.err # ErrUnavailable) =>
              (calls[c].implCalls = 1) = (Decoded(c).err = NoErr)

C10_Witness ==
    \E c, d \in Calls :
        /\ calls[c].op = "Execute" /\ calls[c].adapter /\ calls[c].pc = "done"
        /\ calls[c].remote = 0
        /\ toProtoNode(calls[c].node).err = NoErr
        /\ toProtoExecutionContext(calls[c].ctx).err # NoErr
        /\ calls[d].op = "Execute" /\ calls[d].pc = "done"
        /\ calls[d].remote = 1 /\ calls[d].implCalls = 1
====
